---- MODULE Spec2Model ----
(***************************************************************************)
(* Red Energy API client (custom_components/red_energy/api.py) and the     *)
(* credential rotation of its coordinator (coordinator.py).                *)
(*                                                                         *)
(* The client holds three session fields (_access_token, _refresh_token,   *)
(* _token_expires).  A public coroutine is run by a task, which takes one  *)
(* step per await on the network: the clock and the coordinator's          *)
(* credential rotation interleave exactly where the event loop lets them.  *)
(* The answers of the servers and the passing of time are the              *)
(* environment's choice.                                                   *)
(***************************************************************************)
EXTENDS Integers, Sequences, FiniteSets, TLC

\* ------------------------------------------------------------------ bounds
\* the clock runs from 0 to MaxTime seconds
MaxTime == 2
\* credential rotations per behaviour
MaxRotations == 1
\* largest explicit expires_in (seconds) a token response carries
MaxExpiresIn == 1

\* ------------------------------------------------------- program constants
\* tokens.get('expires_in', 3600)
DefaultExpiresIn == 3600

\* ------------------------------------------------------------------ values
\* the task that runs the client's coroutines, one at a time
Tasks == {"t1"}

\* Python's None for the two token strings; a token is a non-empty string.
None == "None"
AccessTokens == {"at1", "at2"}
RefreshTokens == {"rt1", "rt2"}
\* a key that a JSON body does not hold
Absent == "absent"

\* _token_expires is Optional[datetime]: <<>> is None, <<n>> is the instant n.
NoExpiry == <<>>

AuthError == "RedEnergyAuthError"
\* every exception type below derives from Exception
ExceptionTypes ==
    {AuthError, "ClientResponseError", "ClientError", "TimeoutError",
     "ContentTypeError", "KeyError", "TypeError"}

\* the operations that start with "await self._ensure_valid_token()"
FetchOps == {"get_customer_data", "get_properties", "get_usage_data"}

\* ------------------------------------------------------------ the servers
\* POST OKTA_AUTH_URL
PreauthResponses ==
    {"ok", "non200_json", "non200_nojson", "status_not_success",
     "no_session_token", "bad_json", "timeout", "transport"}
\* GET DISCOVERY_URL ("non200": a status from 400 on)
DiscoveryResponses ==
    {"ok", "non200", "no_token_endpoint", "no_authorization_endpoint",
     "bad_json", "timeout", "transport"}
\* GET authorization_endpoint, redirects not followed
AuthorizeResponses == {"ok", "no_location", "no_code", "timeout", "transport"}
\* GET BASE_API_URL/...
ApiResponses == {"ok", "http400", "http500", "bad_json", "timeout", "transport"}

ExpiresInValues == 1..MaxExpiresIn

\* An answer of the token endpoint.  status is "200", "2xx3xx" (another
\* status below 400), "4xx5xx" or "none" (no answer); kind is "ok" for a JSON
\* object read as the token body, else what went wrong.
TokenBody(s, a, r, k, v) ==
    [status |-> s, kind |-> "ok", access_token |-> a, refresh_token |-> r,
     exp_kind |-> k, exp_val |-> v]
TokenFailure(s, f) ==
    [status |-> s, kind |-> f, access_token |-> Absent, refresh_token |-> Absent,
     exp_kind |-> "absent", exp_val |-> 0]
NoResp == TokenFailure("none", "none")

\* POST token_endpoint: a 200 body {access_token, refresh_token?, expires_in?}
\* (expires_in a positive number of seconds, or of another JSON type), a 200
\* body without access_token, a token body under another status below 400,
\* an error status with or without a JSON body, an unparsable 200 body, a
\* timeout or a transport error.
TokenResponses ==
    {TokenBody("200", a, r, "int", v) :
        a \in AccessTokens, r \in RefreshTokens \cup {Absent}, v \in ExpiresInValues}
    \cup {TokenBody("200", a, r, "absent", 0) :
        a \in AccessTokens, r \in RefreshTokens \cup {Absent}}
    \cup {TokenBody("200", "at2", "rt2", "malformed", 0)}
    \cup {TokenBody("200", Absent, "rt1", "absent", 0)}
    \cup {TokenBody("2xx3xx", "at2", "rt2", "absent", 0)}
    \cup {TokenFailure("4xx5xx", "non200_json"), TokenFailure("4xx5xx", "non200_nojson"),
          TokenFailure("200", "bad_json"),
          TokenFailure("none", "timeout"), TokenFailure("none", "transport")}

\* how a call's record names the answer that ended it
Outcome(resp) ==
    IF resp.kind = "ok" /\ resp.status # "200" THEN "non200_tokens" ELSE resp.kind

\* ------------------------------------------------------------------- state
VARIABLES
    access_token,   \* RedEnergyAPI._access_token
    refresh_token,  \* RedEnergyAPI._refresh_token
    token_expires,  \* RedEnergyAPI._token_expires
    now,            \* datetime.now(), in seconds
    nRotations,     \* calls of async_refresh_credentials so far
    task,           \* per task: the coroutine it runs and where it is
    coord,          \* RedEnergyDataCoordinator and its running _async_update_data
    norm            \* a call of RedEnergyAPI._transform_usage_data

vars == <<access_token, refresh_token, token_expires, now, nRotations, task,
          coord, norm>>
session == <<access_token, refresh_token, token_expires>>

\* A task that runs nothing.  callTime is the clock when the call was made,
\* hadToken / wasExpired / hadRefresh what the session held at that instant;
\* reqs are the HTTP requests the call has issued, in order; outcome is the
\* server answer that ended the call, cause the exception that authenticate
\* wrapped, resp the last token response the call received.
Idle ==
    [op |-> "none", pc |-> "idle", callTime |-> 0,
     hadToken |-> FALSE, wasExpired |-> FALSE, hadRefresh |-> FALSE,
     reqs |-> <<>>, result |-> "none", msg |-> "none", cause |-> "none",
     outcome |-> "none", resp |-> NoResp]

Started(op) ==
    [Idle EXCEPT !.op = op, !.callTime = now,
                 !.hadToken = (access_token # None),
                 !.wasExpired = (token_expires # NoExpiry /\ now >= token_expires[1]),
                 !.hadRefresh = (refresh_token # None)]

\* a coroutine may be started by a task that runs none
Free(t) == task[t].pc \in {"idle", "done"}

Exc(type, msg) == [exc |-> type, msg |-> msg, cause |-> "none"]
Ok == Exc("none", "none")

\* a request that is sent a second time
Issue_twice(rec, req, pc) ==
    [rec EXCEPT !.reqs = Append(Append(@, req), req), !.pc = pc]

Issue(rec, req, pc) == [rec EXCEPT !.reqs = Append(@, req), !.pc = pc]
Raise(rec, e, outcome) ==
    [rec EXCEPT !.pc = "done", !.result = e.exc, !.msg = e.msg,
                !.cause = e.cause, !.outcome = outcome]
Returns(rec, value) == [rec EXCEPT !.pc = "done", !.result = value]

\* An empty dict.
EmptyDict == <<>>

\* RedEnergyDataCoordinator as constructed (_customer_data None, _properties
\* []) with accounts selected and services configured, no update running.
\* p and s are the positions of the two for loops, property_usage and
\* usage_data the dicts they fill; calls lists the get_usage_data calls of the
\* pass as <<property, service>> positions, outcomes what each call led to;
\* auth tells whether the pass called authenticate; result, msg and cause are
\* how the pass ended and, for UpdateFailed, the exception it was raised from.
Coordinator(accounts, services) ==
    [selected_accounts |-> accounts, services |-> services,
     customer_data |-> FALSE, properties |-> <<>>,
     pc |-> "idle", p |-> 0, s |-> 0,
     property_usage |-> EmptyDict, usage_data |-> EmptyDict,
     calls |-> <<>>, outcomes |-> <<>>, auth |-> "none",
     result |-> "none", msg |-> "none", cause |-> "none"]

\* no call of _transform_usage_data
NoTransform == [pc |-> "idle"]

Init ==
    /\ access_token = None
    /\ refresh_token = None
    /\ token_expires = NoExpiry
    /\ now = 0
    /\ nRotations = 0
    /\ task = [t \in Tasks |-> Idle]
    /\ coord = Coordinator({}, {})
    /\ norm = NoTransform

\* ---------------------------------------------------------- authenticate
\* authenticate without its "except Exception" clause
authenticate_except_reraise(e) == e

\* except RedEnergyAuthError: raise / except Exception as err: raise
\* RedEnergyAuthError(...) from err
authenticate_except(e) ==
    IF e.exc = AuthError THEN e
    ELSE IF e.exc \in ExceptionTypes
         THEN [exc |-> AuthError,
               msg |-> "Authentication failed due to unexpected error",
               cause |-> e.exc]
         ELSE e

\* the body of the try under "if response.status != 200"
okta_error_try(r) ==
    IF r = "non200_json"
    THEN Exc(AuthError, "Okta authentication failed: errorSummary (Code: errorCode)")
    ELSE Exc("ContentTypeError", "none")

\* "except Exception as parse_err" around that body
okta_error_except(e) ==
    IF e.exc \in ExceptionTypes
    THEN Exc(AuthError, "Okta authentication failed with HTTP status")
    ELSE e

get_session_token(r) ==
    CASE r = "ok" -> Ok
      [] r \in {"non200_json", "non200_nojson"} -> okta_error_except(okta_error_try(r))
      [] r = "status_not_success" -> Exc(AuthError, "Authentication failed - Status")
      [] r = "no_session_token" -> Exc("KeyError", "none")
      [] r = "bad_json" -> Exc("ContentTypeError", "none")
      [] r = "timeout" -> Exc("TimeoutError", "none")
      [] r = "transport" -> Exc("ClientError", "none")

\* aiohttp's response.raise_for_status(): raises from status 400 on
raise_for_status(status) ==
    IF status = "4xx5xx" THEN Exc("ClientResponseError", "none") ELSE Ok

\* _get_discovery_data: raise_for_status(), response.json(); needs names the
\* keys the caller then reads from the document
get_discovery_data(r, needs) ==
    CASE r = "ok" -> Ok
      [] r = "non200" -> raise_for_status("4xx5xx")
      [] r = "no_token_endpoint" ->
            IF "token_endpoint" \in needs THEN Exc("KeyError", "none") ELSE Ok
      [] r = "no_authorization_endpoint" ->
            IF "authorization_endpoint" \in needs THEN Exc("KeyError", "none") ELSE Ok
      [] r = "bad_json" -> Exc("ContentTypeError", "none")
      [] r = "timeout" -> Exc("TimeoutError", "none")
      [] r = "transport" -> Exc("ClientError", "none")

get_authorization_code(r) ==
    CASE r = "ok" -> Ok
      [] r = "no_location" ->
            Exc(AuthError, "No redirect location found in authorization response")
      [] r = "no_code" -> Exc(AuthError, "Authorization failed")
      [] r = "timeout" -> Exc("TimeoutError", "none")
      [] r = "transport" -> Exc("ClientError", "none")

\* expires_in = tokens.get('expires_in', 3600)
expires_in(resp) ==
    IF resp.exp_kind = "absent" THEN DefaultExpiresIn ELSE resp.exp_val

\* What _exchange_code_for_tokens raises, if anything: under
\* "if response.status != 200" the error is logged and raise_for_status()
\* called; then the body is read.
exchange_code_for_tokens(resp) ==
    CASE resp.kind = "timeout" -> Exc("TimeoutError", "none")
      [] resp.kind = "transport" -> Exc("ClientError", "none")
      [] resp.status # "200" /\ raise_for_status(resp.status) # Ok ->
            raise_for_status(resp.status)
      [] resp.kind \in {"bad_json", "non200_nojson"} -> Exc("ContentTypeError", "none")
      [] resp.kind = "ok" /\ resp.access_token = Absent -> Exc("KeyError", "none")
      [] resp.kind = "ok" /\ resp.access_token # Absent /\ resp.exp_kind = "malformed" ->
            Exc("TypeError", "none")
      [] OTHER -> Ok

\* _exchange_code_for_tokens reaches "self._access_token = tokens['access_token']"
\* and the key is there
exchange_stores(resp) ==
    /\ resp.kind = "ok"
    /\ raise_for_status(resp.status) = Ok
    /\ resp.access_token # Absent

\* self._access_token = tokens['access_token']
exchange_access_token(resp, old) ==
    IF exchange_stores(resp) THEN resp.access_token ELSE old

\* self._refresh_token = tokens.get('refresh_token')
exchange_refresh_token(resp, old) ==
    IF exchange_stores(resp)
    THEN (IF resp.refresh_token = Absent THEN None ELSE resp.refresh_token)
    ELSE old

\* the expiry stored without the token's lifetime added
store_token_expires_now(resp, stores, old, t) ==
    IF stores /\ resp.exp_kind # "malformed" THEN <<t>> ELSE old

\* an expiry that is only ever moved forward: a later expiry already held is
\* kept
store_token_expires_latest(resp, stores, old, t) ==
    IF stores /\ resp.exp_kind # "malformed"
    THEN (IF old # NoExpiry /\ old[1] > t + expires_in(resp) THEN old
          ELSE <<t + expires_in(resp)>>)
    ELSE old

\* self._token_expires = datetime.now() + timedelta(seconds=expires_in), which
\* raises before the assignment when expires_in is no number
store_token_expires(resp, stores, old, t) ==
    IF stores /\ resp.exp_kind # "malformed"
    THEN <<t + expires_in(resp)>>
    ELSE old

call_authenticate(t) ==
    /\ Free(t)
    /\ task' = [task EXCEPT ![t] = Issue(Started("authenticate"), "preauth_post", "preauth")]
    /\ UNCHANGED <<session, now, nRotations>>

authenticate_preauth(t) ==
    /\ task[t].pc = "preauth"
    /\ \E r \in PreauthResponses :
        LET e == get_session_token(r) IN
        task' = [task EXCEPT ![t] =
            IF e = Ok THEN Issue(@, "discovery_get", "discovery")
            ELSE Raise(@, authenticate_except(e), r)]
    /\ UNCHANGED <<session, now, nRotations>>

authenticate_discovery(t) ==
    /\ task[t].pc = "discovery"
    /\ \E r \in DiscoveryResponses :
        LET e == get_discovery_data(r, {"authorization_endpoint", "token_endpoint"}) IN
        task' = [task EXCEPT ![t] =
            IF e = Ok THEN Issue(@, "authorize_get", "authorize")
            ELSE Raise(@, authenticate_except(e), r)]
    /\ UNCHANGED <<session, now, nRotations>>

authenticate_authorize(t) ==
    /\ task[t].pc = "authorize"
    /\ \E r \in AuthorizeResponses :
        LET e == get_authorization_code(r) IN
        task' = [task EXCEPT ![t] =
            IF e = Ok THEN Issue(@, "token_post_code", "exchange")
            ELSE Raise(@, authenticate_except(e), r)]
    /\ UNCHANGED <<session, now, nRotations>>

authenticate_exchange(t) ==
    /\ task[t].pc = "exchange"
    /\ \E resp \in TokenResponses :
        LET e == exchange_code_for_tokens(resp) IN
        /\ access_token' = exchange_access_token(resp, access_token)
        /\ refresh_token' = exchange_refresh_token(resp, refresh_token)
        /\ token_expires' =
              store_token_expires(resp, exchange_stores(resp), token_expires, now)
        /\ task' = [task EXCEPT ![t] =
              IF e = Ok THEN Returns([@ EXCEPT !.resp = resp], "True")
              ELSE Raise([@ EXCEPT !.resp = resp], authenticate_except(e),
                         Outcome(resp))]
    /\ UNCHANGED <<now, nRotations>>



\* ------------------------------------------- _ensure_valid_token, refresh
\* _ensure_valid_token without its "if not self._access_token" check
ensure_valid_token_unchecked(at, rt, exp, t) ==
    IF exp # NoExpiry /\ t >= exp[1]
    THEN (IF rt # None THEN "refresh" ELSE "expired")
    ELSE "valid"

\* _ensure_valid_token without the "else: raise" of an expired token that
\* cannot be refreshed
ensure_valid_token_lenient(at, rt, exp, t) ==
    IF at = None THEN "no_token"
    ELSE IF exp # NoExpiry /\ t >= exp[1] /\ rt # None THEN "refresh"
         ELSE "valid"

\* _ensure_valid_token refreshing whenever a refresh token is held
ensure_valid_token_eager(at, rt, exp, t) ==
    IF at = None THEN "no_token"
    ELSE IF rt # None THEN "refresh"
         ELSE IF exp # NoExpiry /\ t >= exp[1] THEN "expired"
              ELSE "valid"

\* What _ensure_valid_token decides from the session fields at instant t.
ensure_valid_token(at, rt, exp, t) ==
    IF at = None THEN "no_token"
    ELSE IF exp # NoExpiry /\ t >= exp[1]
         THEN (IF rt # None THEN "refresh" ELSE "expired")
         ELSE "valid"

\* What _refresh_access_token raises on the token endpoint's answer: under
\* "if response.status != 200" the body is parsed and RedEnergyAuthError
\* raised; else the body is read.
refresh_access_token(resp) ==
    CASE resp.kind = "timeout" -> Exc("TimeoutError", "none")
      [] resp.kind = "transport" -> Exc("ClientError", "none")
      [] resp.kind \in {"non200_nojson", "bad_json"} -> Exc("ContentTypeError", "none")
      [] resp.status # "200" -> Exc(AuthError, "Token refresh failed")
      [] resp.kind = "ok" /\ resp.access_token = Absent -> Exc("KeyError", "none")
      [] resp.kind = "ok" /\ resp.access_token # Absent /\ resp.exp_kind = "malformed" ->
            Exc("TypeError", "none")
      [] OTHER -> Ok

\* _refresh_access_token reaches "self._access_token = tokens['access_token']"
\* and the key is there
refresh_stores(resp) ==
    /\ resp.kind = "ok"
    /\ resp.status = "200"
    /\ resp.access_token # Absent

\* a refresh that drops the access token when the token endpoint rejects it
refresh_store_access_token_clearing(resp, old) ==
    IF refresh_stores(resp) THEN resp.access_token
    ELSE IF resp.status = "4xx5xx" THEN None ELSE old

\* self._access_token = tokens['access_token']
refresh_store_access_token(resp, old) ==
    IF refresh_stores(resp) THEN resp.access_token ELSE old

\* a refresh that stores tokens.get('refresh_token') as the code exchange does
refresh_store_refresh_token_get(resp, old) ==
    IF refresh_stores(resp)
    THEN (IF resp.refresh_token = Absent THEN None ELSE resp.refresh_token)
    ELSE old

\* if 'refresh_token' in tokens: self._refresh_token = tokens['refresh_token']
refresh_store_refresh_token(resp, old) ==
    IF refresh_stores(resp) /\ resp.refresh_token # Absent
    THEN resp.refresh_token
    ELSE old

\* response.raise_for_status(); await response.json()
fetch_response(op, r) ==
    CASE r = "ok" -> Ok
      [] r \in {"http400", "http500"} -> Exc("ClientResponseError", "none")
      [] r = "bad_json" -> Exc("ContentTypeError", "none")
      [] r = "timeout" -> Exc("TimeoutError", "none")
      [] r = "transport" -> Exc("ClientError", "none")

\* get_customer_data / get_properties / get_usage_data up to the first await
call_fetch(t, op) ==
    /\ Free(t)
    /\ LET d == ensure_valid_token(access_token, refresh_token, token_expires, now)
           rec == Started(op)
       IN task' = [task EXCEPT ![t] =
            CASE d = "no_token" ->
                    Raise(rec, Exc(AuthError, "No access token available"), "none")
              [] d = "expired" ->
                    Raise(rec, Exc(AuthError,
                        "Token expired and no refresh token available"), "none")
              [] d = "refresh" -> Issue(rec, "discovery_get", "refresh_discovery")
              [] d = "valid" -> Issue(rec, "api_get", "api_get")]
    /\ UNCHANGED <<session, now, nRotations>>

\* _refresh_access_token: the discovery document arrives
refresh_discovery(t) ==
    /\ task[t].pc = "refresh_discovery"
    /\ \E r \in DiscoveryResponses :
        LET e == get_discovery_data(r, {"token_endpoint"}) IN
        task' = [task EXCEPT ![t] =
            IF e = Ok THEN Issue(@, "token_post_refresh", "refresh_post")
            ELSE Raise(@, e, r)]
    /\ UNCHANGED <<session, now, nRotations>>

\* _refresh_access_token: the token endpoint answers; on success the fetch
\* goes on to its own GET without another await
refresh_post(t) ==
    /\ task[t].pc = "refresh_post"
    /\ \E resp \in TokenResponses :
        LET e == refresh_access_token(resp) IN
        /\ access_token' = refresh_store_access_token(resp, access_token)
        /\ refresh_token' = refresh_store_refresh_token(resp, refresh_token)
        /\ token_expires' =
              store_token_expires(resp, refresh_stores(resp), token_expires, now)
        /\ task' = [task EXCEPT ![t] =
              IF e = Ok THEN Issue([@ EXCEPT !.resp = resp], "api_get", "api_get")
              ELSE Raise([@ EXCEPT !.resp = resp], e, Outcome(resp))]
    /\ UNCHANGED <<now, nRotations>>

\* the account API answers the GET of a fetch operation
fetch_get(t) ==
    /\ task[t].pc = "api_get"
    /\ \E r \in ApiResponses :
        LET e == fetch_response(task[t].op, r) IN
        task' = [task EXCEPT ![t] =
            IF e = Ok THEN Returns([@ EXCEPT !.outcome = r], "data")
            ELSE Raise(@, e, r)]
    /\ UNCHANGED <<session, now, nRotations>>

\* ------------------------------------------------------------ coordinator
\* RedEnergyDataCoordinator.async_refresh_credentials: the three fields are
\* cleared, then self.api.authenticate(username, password, client_id) is
\* called with one argument more than authenticate takes: the TypeError is
\* caught by "except Exception" and the method returns False.
async_refresh_credentials ==
    /\ nRotations < MaxRotations
    /\ access_token' = None
    /\ refresh_token' = None
    /\ token_expires' = NoExpiry
    /\ nRotations' = nRotations + 1
    /\ UNCHANGED <<now, task>>

\* ------------------------------------------------------------------ clock
Tick ==
    /\ now < MaxTime
    /\ now' = now + 1
    /\ UNCHANGED <<session, nRotations, task>>

\* The client used directly: no coordinator update runs and the usage
\* normalizer is not called on its own.
Next ==
    \/ \E t \in Tasks : call_authenticate(t) /\ UNCHANGED <<coord, norm>>
    \/ \E t \in Tasks : authenticate_preauth(t) /\ UNCHANGED <<coord, norm>>
    \/ \E t \in Tasks : authenticate_discovery(t) /\ UNCHANGED <<coord, norm>>
    \/ \E t \in Tasks : authenticate_authorize(t) /\ UNCHANGED <<coord, norm>>
    \/ \E t \in Tasks : authenticate_exchange(t) /\ UNCHANGED <<coord, norm>>
    \/ \E t \in Tasks, op \in FetchOps : call_fetch(t, op) /\ UNCHANGED <<coord, norm>>
    \/ \E t \in Tasks : refresh_discovery(t) /\ UNCHANGED <<coord, norm>>
    \/ \E t \in Tasks : refresh_post(t) /\ UNCHANGED <<coord, norm>>
    \/ \E t \in Tasks : fetch_get(t) /\ UNCHANGED <<coord, norm>>
    \/ async_refresh_credentials /\ UNCHANGED <<coord, norm>>
    \/ Tick /\ UNCHANGED <<coord, norm>>

Spec == Init /\ [][Next]_vars

\* ------------------------------------------------------------- properties
\* task t starts one of the coroutines ops in this step
Calls(t, ops) == Free(t) /\ task'[t] # task[t] /\ task'[t].op \in ops

\* task t, in the middle of a coroutine, takes a step
Steps(t) == ~Free(t) /\ task'[t] # task[t]

\* the refresh of task t's call ends in this step with new tokens stored
RefreshSucceeds(t) == task[t].pc = "refresh_post" /\ task'[t].pc = "api_get"

Occurrences(seq, x) == Cardinality({i \in DOMAIN seq : seq[i] = x})

NoRequest(t) == task[t].reqs = <<>>

\* C1: a fetch operation called while access_token is empty fails with the
\* "No access token available" authentication error and issues no HTTP
\* request at all.
C1_NoTokenFailsFast ==
    \A t \in Tasks :
        (task[t].op \in FetchOps /\ ~task[t].hadToken) =>
            /\ task[t].pc = "done"
            /\ task[t].result = AuthError
            /\ task[t].msg = "No access token available"
            /\ NoRequest(t)

C1_Witness ==
    \E t \in Tasks :
        /\ task[t].op = "get_usage_data" /\ task[t].pc = "done"
        /\ ~task[t].hadToken /\ task[t].result = AuthError
        /\ access_token = None /\ nRotations = 1

\* the requests of a call that found the token expired with a refresh token
\* held: the discovery GET, then the token POST, then the call's own GET
OneRefresh(t) ==
    /\ task[t].reqs # <<>>
    /\ \A i \in DOMAIN task[t].reqs :
          task[t].reqs[i] = <<"discovery_get", "token_post_refresh", "api_get">>[i]
    /\ Occurrences(task[t].reqs, "discovery_get") = 1
    /\ Occurrences(task[t].reqs, "token_post_refresh") <= 1
    /\ (task[t].reqs = <<"discovery_get">> /\ task[t].pc = "done") =>
          task[t].outcome \in {"non200", "no_token_endpoint", "bad_json",
                               "timeout", "transport"}

\* C2: a call that finds access_token set, now >= token_expiry and a refresh
\* token held performs exactly one refresh: one discovery GET, followed (when
\* the discovery document arrived) by one token POST with
\* grant_type=refresh_token, never a second of either; and when the refresh
\* succeeds token_expiry is afterwards later than the time of the call.
C2_ExpiredRefreshesOnce ==
    [][\A t \in Tasks :
          /\ (task'[t].op \in FetchOps /\ task'[t].hadToken
                /\ task'[t].wasExpired /\ task'[t].hadRefresh) => OneRefresh(t)'
          /\ (RefreshSucceeds(t) /\ task[t].hadToken /\ task[t].wasExpired
                /\ task[t].hadRefresh) =>
                (token_expires' # NoExpiry /\ token_expires'[1] > task[t].callTime)
      ]_vars

C2_Witness ==
    \E t \in Tasks :
        /\ task[t].op \in FetchOps /\ task[t].pc = "api_get"
        /\ task[t].hadToken /\ task[t].wasExpired /\ task[t].hadRefresh
        /\ task[t].reqs = <<"discovery_get", "token_post_refresh", "api_get">>
        /\ token_expires # NoExpiry /\ token_expires[1] > task[t].callTime

\* C3: a call that finds access_token set, now >= token_expiry and no
\* refresh token fails with the "Token expired and no refresh token
\* available" authentication error, issues no request and leaves the three
\* session fields as they were.
C3_ExpiredNoRefreshFails ==
    [][\A t \in Tasks :
          (/\ Calls(t, FetchOps)
           /\ access_token # None
           /\ token_expires # NoExpiry /\ now >= token_expires[1]
           /\ refresh_token = None) =>
              /\ task'[t].pc = "done"
              /\ task'[t].result = AuthError
              /\ task'[t].msg = "Token expired and no refresh token available"
              /\ task'[t].reqs = <<>>
              /\ session' = session
      ]_vars

C3_Witness ==
    \E t \in Tasks :
        /\ task[t].op \in FetchOps /\ task[t].pc = "done"
        /\ task[t].hadToken /\ task[t].wasExpired /\ ~task[t].hadRefresh
        /\ task[t].result = AuthError /\ task[t].reqs = <<>>
        /\ access_token # None /\ refresh_token = None

\* C4: a call that finds access_token set and now < token_expiry issues no
\* discovery GET and no token POST, only its own GET, and no step of the
\* call changes access_token, refresh_token or token_expiry.
C4_ValidTokenNoRefresh ==
    [][\A t \in Tasks :
          /\ (/\ Calls(t, FetchOps)
              /\ access_token # None
              /\ token_expires # NoExpiry /\ now < token_expires[1]) =>
                 /\ task'[t].pc = "api_get"
                 /\ task'[t].reqs = <<"api_get">>
                 /\ session' = session
          /\ (/\ Steps(t)
              /\ task[t].op \in FetchOps
              /\ task[t].hadToken /\ ~task[t].wasExpired) =>
                 /\ task'[t].reqs = <<"api_get">>
                 /\ session' = session
      ]_vars

C4_Witness ==
    \E t \in Tasks :
        /\ task[t].op \in FetchOps /\ task[t].pc = "done"
        /\ task[t].hadToken /\ ~task[t].wasExpired
        /\ task[t].result = "data" /\ task[t].reqs = <<"api_get">>
        /\ token_expires # NoExpiry /\ task[t].callTime < token_expires[1]
        /\ nRotations = 0

\* C5: access_token (and token_expiry) goes from set to empty only in a step
\* of async_refresh_credentials: no fetch, refresh or authenticate, failing
\* or not, clears it.  (Tokens in a token response are non-empty strings.)
C5_OnlyRotationClears ==
    [][(\/ (access_token # None /\ access_token' = None)
        \/ (token_expires # NoExpiry /\ token_expires' = NoExpiry)
        \/ (session # <<None, None, NoExpiry>> /\ session' = <<None, None, NoExpiry>>))
          => nRotations' = nRotations + 1
      ]_vars

C5_Witness ==
    \E t \in Tasks :
        /\ task[t].op \in FetchOps /\ task[t].pc = "done"
        /\ task[t].outcome = "non200_json" /\ task[t].result = AuthError
        /\ task[t].reqs = <<"discovery_get", "token_post_refresh">>
        /\ access_token # None /\ nRotations = 0

\* C6: authenticate ends by returning True or by raising RedEnergyAuthError,
\* whichever step failed and however (status, timeout, transport error,
\* unparsable body, missing field, missing Location or code).
C6_AuthenticateRaisesAuthError ==
    \A t \in Tasks :
        (task[t].op = "authenticate" /\ task[t].pc = "done") =>
            \/ task[t].result = "True" /\ task[t].outcome = "none"
            \/ task[t].result = AuthError /\ task[t].outcome # "none"

C6_Witness ==
    \E t \in Tasks :
        /\ task[t].op = "authenticate" /\ task[t].pc = "done"
        /\ task[t].result = AuthError /\ task[t].cause = "KeyError"
        /\ task[t].outcome = "no_token_endpoint"

\* the refresh of task t's call fails in this step: the discovery document
\* could not be fetched, or the token endpoint answered non-200
RefreshFails(t) ==
    \/ task[t].pc = "refresh_discovery" /\ task'[t].pc = "done"
    \/ /\ task[t].pc = "refresh_post" /\ task'[t].pc = "done"
       /\ task'[t].outcome \in {"non200_json", "non200_nojson", "non200_tokens"}

\* C7: a failed refresh leaves access_token, refresh_token and token_expiry
\* unchanged and reaches the caller of the fetch operation as
\* RedEnergyAuthError.
C7_FailedRefreshIsAuthError ==
    [][\A t \in Tasks :
          RefreshFails(t) =>
              (session' = session /\ task'[t].result = AuthError)
      ]_vars

\* C8: a successful refresh stores the response's access_token and
\* now + expires_in (3600 when absent), and stores the response's
\* refresh_token if and only if it holds one: otherwise the refresh token
\* held before stays, so that a later expiry can be refreshed.
C8_RefreshStoresResponse ==
    [][\A t \in Tasks :
          RefreshSucceeds(t) =>
              LET r == task'[t].resp IN
              /\ r.kind = "ok" /\ r.status = "200"
              /\ access_token' = r.access_token /\ access_token' \in AccessTokens
              /\ token_expires' =
                    <<now + (IF r.exp_kind = "absent" THEN DefaultExpiresIn
                             ELSE r.exp_val)>>
              /\ refresh_token' =
                    (IF r.refresh_token # Absent THEN r.refresh_token
                     ELSE refresh_token)
              /\ (refresh_token # None => refresh_token' # None)
      ]_vars

C8_Witness ==
    \E t \in Tasks :
        /\ task[t].op \in FetchOps /\ task[t].pc = "api_get"
        /\ task[t].reqs = <<"discovery_get", "token_post_refresh", "api_get">>
        /\ task[t].resp.kind = "ok" /\ task[t].resp.refresh_token = Absent
        /\ access_token = task[t].resp.access_token
        /\ refresh_token \in RefreshTokens

\* authenticate returns True in this step
AuthenticateReturnsTrue(t) ==
    /\ task[t].op = "authenticate" /\ task[t].pc # "done"
    /\ task'[t].pc = "done" /\ task'[t].result = "True"

\* C9: authenticate returns True only when the code exchange answered 200,
\* and then access_token is the returned access token, refresh_token the
\* returned refresh token (None when there is none) and token_expiry the
\* time of the exchange + expires_in, 3600 when the response has none.
C9_AuthenticateStoresTokens ==
    [][\A t \in Tasks :
          AuthenticateReturnsTrue(t) =>
              LET r == task'[t].resp IN
              /\ task[t].pc = "exchange"
              /\ task'[t].reqs = <<"preauth_post", "discovery_get",
                                   "authorize_get", "token_post_code">>
              /\ r.kind = "ok" /\ r.status = "200"
              /\ access_token' = r.access_token /\ access_token' \in AccessTokens
              /\ refresh_token' =
                    (IF r.refresh_token = Absent THEN None ELSE r.refresh_token)
              /\ token_expires' =
                    <<now + (IF r.exp_kind = "absent" THEN DefaultExpiresIn
                             ELSE r.exp_val)>>
      ]_vars

\* C10: when the password pre-auth answers non-200 with a parseable error
\* body, authenticate fails with an authentication error whose message
\* carries the upstream errorSummary and errorCode; the message built from
\* the HTTP status is used only when the body cannot be parsed.
C10_PreauthErrorCarriesSummary ==
    \A t \in Tasks :
        (/\ task[t].op = "authenticate" /\ task[t].pc = "done"
         /\ task[t].reqs = <<"preauth_post">>) =>
            /\ task[t].outcome = "non200_json" =>
                  /\ task[t].result = AuthError
                  /\ task[t].msg =
                        "Okta authentication failed: errorSummary (Code: errorCode)"
            /\ task[t].msg = "Okta authentication failed with HTTP status" =>
                  task[t].outcome = "non200_nojson"

\* =========================================================================
\* RedEnergyDataCoordinator._async_update_data: one collection pass
\* =========================================================================
\* properties the account may hold
MaxProperties == 2

\* SERVICE_TYPE_ELECTRICITY, SERVICE_TYPE_GAS
ServiceTypes == {"electricity", "gas"}

\* one element of a property's "services" list; consumer_number None when the
\* key is missing or empty
Service(type, cn, active) ==
    [type |-> type, consumer_number |-> cn, active |-> active]

\* the "services" lists a property may come with
ServiceLists ==
    {<<>>,
     <<Service("electricity", "cn", TRUE)>>,
     <<Service("electricity", "cn", TRUE), Service("gas", "cn", TRUE)>>,
     <<Service("electricity", "cn", FALSE), Service("gas", "cn", TRUE)>>,
     <<Service("electricity", None, TRUE), Service("gas", "cn", TRUE)>>}

\* what validate_properties_data(await self.api.get_properties()) may be: the
\* property at position i has id i
PropertyLists ==
    UNION {{[i \in 1..n |-> [id |-> i, services |-> f[i]]] :
                f \in [1..n -> ServiceLists]} : n \in 0..MaxProperties}

\* str(property_id)
str(id) == <<"1", "2", "3", "4">>[id]

\* the selected_accounts and the services a coordinator may be configured with
AccountSelections == SUBSET {str(i) : i \in 1..MaxProperties}
ServiceSelections == {{"electricity"}, {"electricity", "gas"}}

\* d[k] = v on a dict
SetItem(d, k, v) == [x \in DOMAIN d \cup {k} |-> IF x = k THEN v ELSE d[x]]

\* GET BASE_API_URL/usage/interval: as ApiResponses, "ok" a body that
\* normalizes to a document with usage entries; "error_payload" a body
\* {error: true, consumer_number, ..., usage_data: []}, which the normalizer
\* passes through; "invalid" a body whose document validate_usage_data rejects
UsageResponses == ApiResponses \cup {"error_payload", "invalid"}

\* CLIENT_ID of const.py, and the client_id a coordinator is constructed with
CLIENT_ID == "0oa1apu62kkqeet4C3l7"
ConfiguredClientId == "client_id of the config entry"

\* the client_id of the authorization request and of the code exchange
authorize_client_id == CLIENT_ID
exchange_client_id == CLIENT_ID

\* def authenticate(self, username, password): the arguments a call binds
authenticate_parameters == <<"username", "password">>

\* calling authenticate with the positional arguments args
bind_authenticate(args) ==
    IF Len(args) = Len(authenticate_parameters) THEN Ok
    ELSE Exc("TypeError", "authenticate() takes 3 positional arguments but 4 were given")

\* What a fetch operation raises when it runs from call to return on the
\* session as it is, the discovery document answering rd, the token endpoint
\* resp and the account API ra.
api_call(op, rd, resp, ra) ==
    LET d == ensure_valid_token(access_token, refresh_token, token_expires, now)
        e1 == get_discovery_data(rd, {"token_endpoint"})
        e2 == refresh_access_token(resp)
        e3 == IF ra \in ApiResponses THEN fetch_response(op, ra) ELSE Ok
    IN CASE d = "no_token" -> Exc(AuthError, "No access token available")
         [] d = "expired" ->
               Exc(AuthError, "Token expired and no refresh token available")
         [] d = "refresh" -> IF e1 # Ok THEN e1 ELSE IF e2 # Ok THEN e2 ELSE e3
         [] d = "valid" -> e3

\* the session fields that call leaves
api_call_session(rd, resp) ==
    IF /\ ensure_valid_token(access_token, refresh_token, token_expires, now) = "refresh"
       /\ get_discovery_data(rd, {"token_endpoint"}) = Ok
    THEN <<refresh_store_access_token(resp, access_token),
           refresh_store_refresh_token(resp, refresh_token),
           store_token_expires(resp, refresh_stores(resp), token_expires, now)>>
    ELSE session

\* the answers that matter to a fetch operation run on the session as it is:
\* the discovery document and the token endpoint are asked only by a refresh,
\* the token endpoint only once the discovery document has arrived
DiscoveryAnswers ==
    IF ensure_valid_token(access_token, refresh_token, token_expires, now) = "refresh"
    THEN DiscoveryResponses ELSE {"ok"}
TokenAnswers(rd) ==
    IF /\ ensure_valid_token(access_token, refresh_token, token_expires, now) = "refresh"
       /\ get_discovery_data(rd, {"token_endpoint"}) = Ok
    THEN TokenResponses ELSE {NoResp}

\* the document get_usage_data returns for the answer ra
usage_payload(ra) ==
    CASE ra = "ok" -> "data"
      [] ra = "error_payload" -> "error_payload"
      [] ra = "invalid" -> "invalid"

\* validate_usage_data: an error response is returned unchanged, a usage
\* document is returned validated, anything else raises DataValidationError
validate_usage_data(payload) ==
    IF payload \in {"data", "error_payload"} THEN Ok
    ELSE Exc("DataValidationError", "none")

\* except (RedEnergyAPIError, DataValidationError) around one service's fetch
usage_except(e) ==
    e.exc \in {AuthError, "RedEnergyAPIError", "DataValidationError"}

\* the except clauses of _async_update_data
update_except(e) ==
    CASE e.exc = AuthError -> "Authentication failed"
      [] e.exc = "RedEnergyAPIError" -> "API error"
      [] OTHER -> "Unexpected error"

UpdateFails(c, e) ==
    [c EXCEPT !.pc = "done", !.result = "UpdateFailed",
              !.msg = update_except(e), !.cause = e.exc]

\* the service at the loops' position, and whether the three "continue"
\* checks let it through
CurrentProperty == coord.properties[coord.p]
CurrentService == CurrentProperty.services[coord.s]
Eligible(service, services) ==
    /\ service.consumer_number # None
    /\ service.type \in services
    /\ service.active

\* _async_update_data is called: authenticate when the client holds no access
\* token, then the cached customer data decide what is fetched first
update_start ==
    /\ coord.pc \in {"idle", "done"}
    /\ LET c == [coord EXCEPT !.p = 0, !.s = 0, !.property_usage = EmptyDict,
                              !.usage_data = EmptyDict, !.calls = <<>>,
                              !.outcomes = <<>>, !.result = "none",
                              !.msg = "none", !.cause = "none",
                              !.auth = IF access_token = None THEN "called"
                                       ELSE "none"]
           e == bind_authenticate(<<"username", "password", "client_id">>)
       IN coord' =
            IF access_token = None /\ e # Ok THEN UpdateFails(c, e)
            ELSE IF ~c.customer_data THEN [c EXCEPT !.pc = "customer"]
                 ELSE [c EXCEPT !.pc = "property", !.p = 1]
    /\ UNCHANGED <<session, now, nRotations, task, norm>>

\* raw_customer_data = await self.api.get_customer_data(); validate
update_customer ==
    /\ coord.pc = "customer"
    /\ \E rd \in DiscoveryAnswers : \E resp \in TokenAnswers(rd), ra \in ApiResponses :
        LET e == api_call("get_customer_data", rd, resp, ra) IN
        /\ access_token' = api_call_session(rd, resp)[1]
        /\ refresh_token' = api_call_session(rd, resp)[2]
        /\ token_expires' = api_call_session(rd, resp)[3]
        /\ coord' = IF e # Ok THEN UpdateFails(coord, e)
                    ELSE [coord EXCEPT !.customer_data = TRUE, !.pc = "properties"]
    /\ UNCHANGED <<now, nRotations, task, norm>>

\* raw_properties = await self.api.get_properties(); validate
update_properties ==
    /\ coord.pc = "properties"
    /\ \E rd \in DiscoveryAnswers : \E resp \in TokenAnswers(rd), ra \in ApiResponses :
        LET e == api_call("get_properties", rd, resp, ra) IN
        /\ access_token' = api_call_session(rd, resp)[1]
        /\ refresh_token' = api_call_session(rd, resp)[2]
        /\ token_expires' = api_call_session(rd, resp)[3]
        /\ \/ e # Ok /\ coord' = UpdateFails(coord, e)
           \/ /\ e = Ok
              /\ \E pl \in PropertyLists :
                    coord' = [coord EXCEPT !.properties = pl, !.pc = "property", !.p = 1]
    /\ UNCHANGED <<now, nRotations, task, norm>>

\* for property_data in self._properties: a property that is not selected is
\* skipped, a selected one enters the loop over its services
update_property ==
    /\ coord.pc = "property"
    /\ coord.p <= Len(coord.properties)
    /\ coord' =
         IF str(CurrentProperty.id) \notin coord.selected_accounts
         THEN [coord EXCEPT !.p = @ + 1]
         ELSE [coord EXCEPT !.pc = "service", !.s = 1, !.property_usage = EmptyDict]
    /\ UNCHANGED <<session, now, nRotations, task, norm>>

\* the three "continue" of the loop over the services
update_skip_service ==
    /\ coord.pc = "service"
    /\ coord.s <= Len(CurrentProperty.services)
    /\ ~Eligible(CurrentService, coord.services)
    /\ coord' = [coord EXCEPT !.s = @ + 1]
    /\ UNCHANGED <<session, now, nRotations, task, norm>>

\* raw_usage = await self.api.get_usage_data(...); validate_usage_data;
\* property_usage[service_type] = {...}, under the try of the service
update_fetch_usage ==
    /\ coord.pc = "service"
    /\ coord.s <= Len(CurrentProperty.services)
    /\ Eligible(CurrentService, coord.services)
    /\ \E rd \in DiscoveryAnswers : \E resp \in TokenAnswers(rd), ra \in UsageResponses :
        LET e1 == api_call("get_usage_data", rd, resp, ra)
            e == IF e1 # Ok THEN e1 ELSE validate_usage_data(usage_payload(ra))
            c == [coord EXCEPT !.calls = Append(@, <<coord.p, coord.s>>),
                               !.outcomes = Append(@,
                                   IF e # Ok THEN e.exc ELSE usage_payload(ra))]
        IN
        /\ access_token' = api_call_session(rd, resp)[1]
        /\ refresh_token' = api_call_session(rd, resp)[2]
        /\ token_expires' = api_call_session(rd, resp)[3]
        /\ coord' =
             IF e = Ok
             THEN [c EXCEPT !.s = @ + 1,
                            !.property_usage =
                                SetItem(@, CurrentService.type, usage_payload(ra))]
             ELSE IF usage_except(e) THEN [c EXCEPT !.s = @ + 1]
                  ELSE UpdateFails(c, e)
    /\ UNCHANGED <<now, nRotations, task, norm>>

\* if property_usage: usage_data[property_id_str] = {...}
update_close_property ==
    /\ coord.pc = "service"
    /\ coord.s > Len(CurrentProperty.services)
    /\ coord' =
         [coord EXCEPT !.pc = "property", !.p = @ + 1, !.s = 0,
                       !.property_usage = EmptyDict,
                       !.usage_data =
                           IF coord.property_usage # EmptyDict
                           THEN SetItem(@, str(CurrentProperty.id), coord.property_usage)
                           ELSE @]
    /\ UNCHANGED <<session, now, nRotations, task, norm>>

\* if not usage_data: raise UpdateFailed(...), caught by "except Exception";
\* else the result is returned
update_finish ==
    /\ coord.pc = "property"
    /\ coord.p > Len(coord.properties)
    /\ coord' =
         IF coord.usage_data = EmptyDict
         THEN UpdateFails(coord, Exc("UpdateFailed", "No usage data retrieved"))
         ELSE [coord EXCEPT !.pc = "done", !.result = "returned"]
    /\ UNCHANGED <<session, now, nRotations, task, norm>>

\* the sessions a coordinator's client may hold when an update starts: none,
\* or the tokens of an authenticate with and without a refresh token
UpdateSessions ==
    {<<None, None, NoExpiry>>, <<"at1", "rt1", <<1>>>>, <<"at1", None, <<1>>>>}

InitUpdate ==
    /\ \E ss \in UpdateSessions :
        access_token = ss[1] /\ refresh_token = ss[2] /\ token_expires = ss[3]
    /\ now = 0
    /\ nRotations = 0
    /\ task = [t \in Tasks |-> Idle]
    /\ coord \in {Coordinator(a, sv) : a \in AccountSelections, sv \in ServiceSelections}
    /\ norm = NoTransform

NextUpdate ==
    \/ update_start
    \/ update_customer
    \/ update_properties
    \/ update_property
    \/ update_skip_service
    \/ update_fetch_usage
    \/ update_close_property
    \/ update_finish
    \/ async_refresh_credentials /\ UNCHANGED <<coord, norm>>
    \/ Tick /\ UNCHANGED <<coord, norm>>

SpecUpdate == InitUpdate /\ [][NextUpdate]_vars

\* ------------------------------------------------- properties of the pass
\* the positions of the services the pass has to fetch: those of a selected
\* property with a consumer number, a configured type and active
EligiblePositions ==
    {ps \in (1..Len(coord.properties)) \X (1..2) :
        /\ ps[2] <= Len(coord.properties[ps[1]].services)
        /\ str(coord.properties[ps[1]].id) \in coord.selected_accounts
        /\ Eligible(coord.properties[ps[1]].services[ps[2]], coord.services)}

Called == {coord.calls[i] : i \in DOMAIN coord.calls}

\* the pass has ended, having reached the loop over the properties
PassEnded == coord.pc = "done" /\ coord.p >= 1

\* the call at index i of the pass ended in an exception
FetchFailed(i) == coord.outcomes[i] \notin {"data", "error_payload"}

\* the service fetched by call i is among the services of its property in
\* the usage_data of the pass
InUsageData(i) ==
    LET prop == coord.properties[coord.calls[i][1]]
        type == prop.services[coord.calls[i][2]].type
    IN /\ str(prop.id) \in DOMAIN coord.usage_data
       /\ type \in DOMAIN coord.usage_data[str(prop.id)]

\* C11: the coordinator's call authenticate(username, password, client_id)
\* is accepted, and the client_id of the authorization request and of the
\* code exchange is the one the caller supplied, not the constant CLIENT_ID.
C11_AuthenticateTakesClientId ==
    (coord.pc = "done" /\ coord.auth = "called") =>
        /\ coord.cause # "TypeError"
        /\ authorize_client_id = ConfiguredClientId
        /\ exchange_client_id = ConfiguredClientId

\* the call at index i ended in a non-2xx status, a timeout or a validation
\* error
ServiceFailure(i) ==
    coord.outcomes[i] \in {"ClientResponseError", "TimeoutError", "DataValidationError"}

\* C12: a pass in which the usage fetch of a service failed (non-2xx status,
\* timeout, validation error) is not ended by that failure: when the pass
\* ends every eligible service of every selected property has been fetched,
\* and the failed service is not in usage_data.
C12_ServiceFailureIsolated ==
    (PassEnded /\ \E i \in DOMAIN coord.calls : ServiceFailure(i)) =>
        /\ Called = EligiblePositions
        /\ \A i \in DOMAIN coord.calls : ServiceFailure(i) => ~InUsageData(i)

\* C13: when every fetch of a pass returned a payload, a service that
\* returned an error-shaped payload is not among its property's services, a
\* property none of whose services returned usage data is not in usage_data,
\* a property with a successful service is, and the pass then returns.
C13_ErrorPayloadOmitted ==
    (PassEnded /\ \A i \in DOMAIN coord.calls : ~FetchFailed(i)) =>
        /\ \A i \in DOMAIN coord.calls :
              coord.outcomes[i] = "error_payload" => ~InUsageData(i)
        /\ \A p \in 1..Len(coord.properties) :
              (str(coord.properties[p].id) \in DOMAIN coord.usage_data)
                 <=> (\E i \in DOMAIN coord.calls :
                         coord.calls[i][1] = p /\ coord.outcomes[i] = "data")
        /\ (\E i \in DOMAIN coord.calls : coord.outcomes[i] = "data")
              => coord.result = "returned"

\* C14: a pass raises UpdateFailed if and only if no service yielded usage
\* data, and a pass in which a service did returns a non-empty usage_data.
C14_FailsIffNoUsableData ==
    PassEnded =>
        LET usable == \E i \in DOMAIN coord.calls : coord.outcomes[i] = "data" IN
        /\ coord.result = "UpdateFailed" <=> ~usable
        /\ usable => (coord.result = "returned" /\ coord.usage_data # EmptyDict)

\* C15: when a pass ends, get_usage_data has been called exactly once for
\* every eligible service of a selected property and for no other service.
C15_EachEligibleServiceOnce ==
    PassEnded =>
        /\ Called = EligiblePositions
        /\ Cardinality(Called) = Len(coord.calls)

\* =========================================================================
\* Fetch operations running concurrently (_bulk_update_data creates one task
\* per selected property, each awaiting get_usage_data)
\* =========================================================================
ConcurrentTasks == {"t1", "t2"}

\* the client holds the tokens of an authenticate, which expire at 1
InitConcurrent ==
    /\ access_token = "at1"
    /\ refresh_token = "rt1"
    /\ token_expires = <<1>>
    /\ now = 0
    /\ nRotations = 0
    /\ task = [t \in ConcurrentTasks |-> Idle]
    /\ coord = Coordinator({}, {})
    /\ norm = NoTransform

\* each task runs one get_usage_data; the event loop interleaves them at
\* their awaits
NextConcurrent ==
    \/ \E t \in ConcurrentTasks :
          /\ task[t].pc = "idle"
          /\ call_fetch(t, "get_usage_data")
          /\ UNCHANGED <<coord, norm>>
    \/ \E t \in ConcurrentTasks : refresh_discovery(t) /\ UNCHANGED <<coord, norm>>
    \/ \E t \in ConcurrentTasks : refresh_post(t) /\ UNCHANGED <<coord, norm>>
    \/ \E t \in ConcurrentTasks : fetch_get(t) /\ UNCHANGED <<coord, norm>>
    \/ Tick /\ UNCHANGED <<coord, norm>>

SpecConcurrent == InitConcurrent /\ [][NextConcurrent]_vars

\* task t has completed a refresh that stored the tokens of its response
Refreshed(t) ==
    /\ task[t].pc \in {"api_get", "done"}
    /\ Occurrences(task[t].reqs, "token_post_refresh") = 1
    /\ refresh_stores(task[t].resp) /\ task[t].resp.exp_kind # "malformed"

MaxEntries == 2
\* half-hour intervals in a daily entry
MaxIntervals == 2
\* alias keys present in one dict of the response
MaxAliasKeys == 2

\* JSON values as Python holds them, tagged with their type.  A dict is a
\* function from its keys.  A number is held as an integer with one decimal
\* digit more than round() keeps: energies in 0.0001 kWh, demands in
\* 0.0001 kW, money in 0.001 dollar, emissions in 0.0000001 tonne, so that
\* round(x, 3), round(x, 2) and round(x, 6) each drop the last digit.
JNull == [t |-> "null"]
JStr(x) == [t |-> "str", s |-> x]
JNum(n) == [t |-> "num", n |-> n]
JList(seq) == [t |-> "list", l |-> seq]
JDict(f) == [t |-> "dict", d |-> f]

\* bool(x), as "or" and "if x" take it
truthy(j) ==
    CASE j.t = "null" -> FALSE
      [] j.t = "str" -> j.s # ""
      [] j.t = "num" -> j.n # 0
      [] j.t = "list" -> Len(j.l) > 0
      [] j.t = "dict" -> DOMAIN j.d # {}
      [] OTHER -> TRUE

\* d.get(k, default); d.get(k) is get(d, k, JNull)
get(d, k, default) == IF k \in DOMAIN d.d THEN d.d[k] ELSE default

\* a or b
or(a, b) == IF truthy(a) THEN a ELSE b

\* float(x): a number, or the exception it raises
float(j) ==
    CASE j.t = "num" -> [ok |-> TRUE, v |-> j.n]
      [] j.t = "str" -> [ok |-> FALSE, exc |-> "ValueError"]
      [] OTHER -> [ok |-> FALSE, exc |-> "TypeError"]

\* the tag compared as it is sent, without .upper()
upper_as_sent(x) == x

\* s.upper() on the tariff tags of the responses
upper(x) ==
    CASE x \in {"PEAK", "peak", "Peak"} -> "PEAK"
      [] x \in {"OFFPEAK", "offpeak"} -> "OFFPEAK"
      [] x \in {"SHOULDER", "shoulder"} -> "SHOULDER"
      [] OTHER -> x

\* str(x) on a date value
pystr(j) ==
    CASE j.t = "str" -> j.s
      [] j.t = "null" -> "None"
      [] j.t = "num" -> ToString(j.n)
      [] OTHER -> "repr"

\* abs(x)
abs(n) == IF n < 0 THEN 0 - n ELSE n

\* round(x, 2) of an amount in 0.001 dollar: to the nearest cent.  On a half
\* Python rounds the binary float, which lies to one side of it; the bodies of
\* the model hold no amount that ends in a half.
round2(n) ==
    LET r == n % 10
        low == n - r
    IN IF r < 5 THEN low
       ELSE IF r > 5 THEN low + 10
            ELSE IF (low \div 10) % 2 = 0 THEN low ELSE low + 10

\* round(x, 3) of an energy in 0.0001 kWh or a demand in 0.0001 kW: to the
\* nearest 0.001
round3(n) ==
    LET r == n % 10
        low == n - r
    IN IF r < 5 THEN low
       ELSE IF r > 5 THEN low + 10
            ELSE IF (low \div 10) % 2 = 0 THEN low ELSE low + 10

\* round(x, 6) of an emission in 0.0000001 tonne: to the nearest 0.000001
round6(n) ==
    LET r == n % 10
        low == n - r
    IN IF r < 5 THEN low
       ELSE IF r > 5 THEN low + 10
            ELSE IF (low \div 10) % 2 = 0 THEN low ELSE low + 10

Raised(exc) == [t |-> "raise", exc |-> exc]

\* _empty_entry without its last key
empty_entry_partial ==
    [t |-> "entry", date |-> "", usage |-> 0, cost |-> 0, unit |-> "kWh",
     import_usage |-> 0, export_usage |-> 0, import_cost |-> 0,
     export_credit |-> 0, net_cost |-> 0,
     peak_import_usage |-> 0, offpeak_import_usage |-> 0,
     shoulder_import_usage |-> 0, peak_export_usage |-> 0,
     offpeak_export_usage |-> 0, shoulder_export_usage |-> 0,
     max_demand_kw |-> 0, max_demand_time |-> JNull]

\* _empty_entry
empty_entry ==
    [t |-> "entry", date |-> "", usage |-> 0, cost |-> 0, unit |-> "kWh",
     import_usage |-> 0, export_usage |-> 0, import_cost |-> 0,
     export_credit |-> 0, net_cost |-> 0,
     peak_import_usage |-> 0, offpeak_import_usage |-> 0,
     shoulder_import_usage |-> 0, peak_export_usage |-> 0,
     offpeak_export_usage |-> 0, shoulder_export_usage |-> 0,
     max_demand_kw |-> 0, max_demand_time |-> JNull,
     carbon_emission_tonne |-> 0]

\* the accumulators before the loop over halfHours
Accumulators ==
    [t |-> "acc", import_usage |-> 0, export_usage |-> 0,
     peak_import |-> 0, offpeak_import |-> 0, shoulder_import |-> 0,
     peak_export |-> 0, offpeak_export |-> 0, shoulder_export |-> 0,
     max_demand_kw |-> 0, max_demand_time |-> JNull]

\* the body of the loop with "demand_kw >= max_demand_kw": a later interval
\* of equal demand takes the time
accumulate_interval_latest(acc, interval) ==
    IF interval.t # "dict" THEN acc
    ELSE
    LET consumption == float(get(interval, "consumptionKwh", JNum(0)))
        generation == float(get(interval, "generationKwh", JNum(0)))
        tag == get(interval, "primaryConsumptionTariffComponent", JStr(""))
        period == upper(tag.s)
        demand_detail == get(interval, "demandDetail", JDict(<<>>))
        demand_kw == float(get(demand_detail, "demandKw", JNum(0)))
        a == [acc EXCEPT
                !.import_usage = @ + consumption.v,
                !.export_usage = @ + generation.v,
                !.peak_import = IF period = "PEAK" THEN @ + consumption.v ELSE @,
                !.peak_export = IF period = "PEAK" THEN @ + generation.v ELSE @,
                !.offpeak_import = IF period = "OFFPEAK" THEN @ + consumption.v ELSE @,
                !.offpeak_export = IF period = "OFFPEAK" THEN @ + generation.v ELSE @,
                !.shoulder_import = IF period = "SHOULDER" THEN @ + consumption.v ELSE @,
                !.shoulder_export = IF period = "SHOULDER" THEN @ + generation.v ELSE @]
    IN IF ~consumption.ok THEN Raised(consumption.exc)
       ELSE IF ~generation.ok THEN Raised(generation.exc)
       ELSE IF tag.t # "str" THEN Raised("AttributeError")
       ELSE IF demand_detail.t # "dict" THEN a
       ELSE IF ~demand_kw.ok THEN Raised(demand_kw.exc)
       ELSE IF demand_kw.v >= a.max_demand_kw
            THEN [a EXCEPT !.max_demand_kw = demand_kw.v,
                           !.max_demand_time = get(interval, "intervalStart", JNull)]
            ELSE a

\* one pass of the body of "for interval in half_hours"
accumulate_interval(acc, interval) ==
    IF interval.t # "dict" THEN acc
    ELSE
    LET consumption == float(get(interval, "consumptionKwh", JNum(0)))
        generation == float(get(interval, "generationKwh", JNum(0)))
        tag == get(interval, "primaryConsumptionTariffComponent", JStr(""))
        period == upper(tag.s)
        demand_detail == get(interval, "demandDetail", JDict(<<>>))
        demand_kw == float(get(demand_detail, "demandKw", JNum(0)))
        a == [acc EXCEPT
                !.import_usage = @ + consumption.v,
                !.export_usage = @ + generation.v,
                !.peak_import = IF period = "PEAK" THEN @ + consumption.v ELSE @,
                !.peak_export = IF period = "PEAK" THEN @ + generation.v ELSE @,
                !.offpeak_import = IF period = "OFFPEAK" THEN @ + consumption.v ELSE @,
                !.offpeak_export = IF period = "OFFPEAK" THEN @ + generation.v ELSE @,
                !.shoulder_import = IF period = "SHOULDER" THEN @ + consumption.v ELSE @,
                !.shoulder_export = IF period = "SHOULDER" THEN @ + generation.v ELSE @]
    IN IF ~consumption.ok THEN Raised(consumption.exc)
       ELSE IF ~generation.ok THEN Raised(generation.exc)
       ELSE IF tag.t # "str" THEN Raised("AttributeError")
       ELSE IF demand_detail.t # "dict" THEN a
       ELSE IF ~demand_kw.ok THEN Raised(demand_kw.exc)
       ELSE IF demand_kw.v > a.max_demand_kw
            THEN [a EXCEPT !.max_demand_kw = demand_kw.v,
                           !.max_demand_time = get(interval, "intervalStart", JNull)]
            ELSE a

\* the loop over halfHours from position i on
RECURSIVE accumulate_intervals(_, _, _)
accumulate_intervals(acc, half_hours, i) ==
    IF acc.t = "raise" \/ i > Len(half_hours) THEN acc
    ELSE accumulate_intervals(accumulate_interval(acc, half_hours[i]), half_hours, i + 1)

\* _normalize_usage_entry: the normalized entry, or the exception raised
normalize_usage_entry(entry) ==
    IF entry.t # "dict" THEN empty_entry
    ELSE
    LET date_value == get(entry, "usageDate", JStr(""))
        half_hours == get(entry, "halfHours", JList(<<>>))
        acc == IF half_hours.t = "list"
               THEN accumulate_intervals(Accumulators, half_hours.l, 1)
               ELSE Accumulators
        import_cost == float(get(entry, "consumptionDollar", JNum(0)))
        generation_dollar == float(get(entry, "generationDollar", JNum(0)))
        export_credit == abs(generation_dollar.v)
        net_cost == import_cost.v - export_credit
        carbon_emission == float(get(entry, "carbonEmissionTonne", JNum(0)))
        max_demand_detail == get(entry, "maxDemandDetail", JDict(<<>>))
        has_summary == max_demand_detail.t = "dict" /\ truthy(max_demand_detail)
        daily_max_demand == float(get(max_demand_detail, "demandKw", JNum(0)))
    IN IF acc.t = "raise" THEN acc
       ELSE IF ~import_cost.ok THEN Raised(import_cost.exc)
       ELSE IF ~generation_dollar.ok THEN Raised(generation_dollar.exc)
       ELSE IF ~carbon_emission.ok THEN Raised(carbon_emission.exc)
       ELSE IF has_summary /\ ~daily_max_demand.ok THEN Raised(daily_max_demand.exc)
       ELSE
       LET summary_wins == has_summary /\ daily_max_demand.v > acc.max_demand_kw IN
       [t |-> "entry", date |-> pystr(date_value),
        usage |-> round3(acc.import_usage - acc.export_usage),
        cost |-> round2(net_cost), unit |-> "kWh",
        import_usage |-> round3(acc.import_usage),
        export_usage |-> round3(acc.export_usage),
        import_cost |-> round2(import_cost.v),
        export_credit |-> round2(export_credit),
        net_cost |-> round2(net_cost),
        peak_import_usage |-> round3(acc.peak_import),
        offpeak_import_usage |-> round3(acc.offpeak_import),
        shoulder_import_usage |-> round3(acc.shoulder_import),
        peak_export_usage |-> round3(acc.peak_export),
        offpeak_export_usage |-> round3(acc.offpeak_export),
        shoulder_export_usage |-> round3(acc.shoulder_export),
        max_demand_kw |-> round3(IF summary_wins THEN daily_max_demand.v
                                 ELSE acc.max_demand_kw),
        max_demand_time |-> IF summary_wins
                            THEN get(max_demand_detail, "intervalStart", JNull)
                            ELSE acc.max_demand_time,
        carbon_emission_tonne |-> round6(carbon_emission.v)]

\* [self._normalize_usage_entry(entry) for entry in entries]: the list, or the
\* first exception raised
RECURSIVE normalize_entries(_, _)
normalize_entries(entries, i) ==
    IF i > Len(entries) THEN JList(<<>>)
    ELSE LET e == normalize_usage_entry(entries[i])
             rest == normalize_entries(entries, i + 1)
         IN IF e.t = "raise" THEN e
            ELSE IF rest.t = "raise" THEN rest
                 ELSE JList(<<e>> \o rest.l)

\* date.strftime('%Y-%m-%d')
strftime(d) ==
    ToString(d.year) \o "-" \o (IF d.month < 10 THEN "0" ELSE "") \o ToString(d.month)
        \o "-" \o (IF d.day < 10 THEN "0" ELSE "") \o ToString(d.day)

\* the document built from the call's arguments around the normalized
\* entries; the exception when normalizing raised
document(consumer_number, from_date, to_date, normalized_entries) ==
    IF normalized_entries.t = "raise" THEN normalized_entries
    ELSE JDict([consumer_number |-> JStr(pystr(consumer_number)),
                from_date |-> JStr(strftime(from_date)),
                to_date |-> JStr(strftime(to_date)),
                usage_data |-> normalized_entries])

\* the keys probed by case 4, in order
AliasKeys == <<"usage_data", "usageData", "data", "intervals", "usage", "entries">>

\* raw_data.get("usage_data") or raw_data.get("usageData") or ... or []
RECURSIVE usage_entries(_, _)
usage_entries(raw_data, i) ==
    IF i > Len(AliasKeys) THEN JList(<<>>)
    ELSE or(get(raw_data, AliasKeys[i], JNull), usage_entries(raw_data, i + 1))

\* _transform_usage_data without case 2: a dict holding both canonical keys is
\* probed like any other dict
transform_usage_data_renormalizing(raw_data, consumer_number, from_date, to_date) ==
    IF raw_data.t = "null"
    THEN document(consumer_number, from_date, to_date, JList(<<>>))
    ELSE IF raw_data.t = "list"
    THEN document(consumer_number, from_date, to_date,
                  normalize_entries(raw_data.l, 1))
    ELSE IF raw_data.t = "dict"
    THEN LET found == usage_entries(raw_data, 1) IN
         IF found.t = "list"
         THEN document(consumer_number, from_date, to_date,
                       normalize_entries(found.l, 1))
         ELSE document(consumer_number, from_date, to_date,
                       normalize_entries(<<raw_data>>, 1))
    ELSE document(consumer_number, from_date, to_date, JList(<<>>))

\* _transform_usage_data: the document returned, or the exception raised
transform_usage_data(raw_data, consumer_number, from_date, to_date) ==
    IF raw_data.t = "null"
    THEN document(consumer_number, from_date, to_date, JList(<<>>))
    ELSE IF raw_data.t = "dict" /\ "consumer_number" \in DOMAIN raw_data.d
                                /\ "usage_data" \in DOMAIN raw_data.d
    THEN raw_data
    ELSE IF raw_data.t = "list"
    THEN document(consumer_number, from_date, to_date,
                  normalize_entries(raw_data.l, 1))
    ELSE IF raw_data.t = "dict"
    THEN LET found == usage_entries(raw_data, 1) IN
         IF found.t = "list"
         THEN document(consumer_number, from_date, to_date,
                       normalize_entries(found.l, 1))
         ELSE document(consumer_number, from_date, to_date,
                       normalize_entries(<<raw_data>>, 1))
    ELSE document(consumer_number, from_date, to_date, JList(<<>>))

\* ---------------------------------------------------- bodies of the response
\* one element of halfHours
Interval(consumption, generation, tag, demand, start) ==
    JDict([consumptionKwh |-> consumption, generationKwh |-> generation,
           primaryConsumptionTariffComponent |-> tag,
           demandDetail |-> JDict([demandKw |-> demand]),
           intervalStart |-> JStr(start)])

\* intervals as the API sends them (1.5004 kWh at peak, ...), one with a
\* reading and a start only, and ill-formed ones: a null reading, a null tariff
\* tag, an element that is not a dict
Intervals ==
    {Interval(JNum(15004), JNum(0), JStr("PEAK"), JNum(30000), "00:00"),
     Interval(JNum(2504), JNum(7002), JStr("offpeak"), JNum(5004), "00:30"),
     Interval(JNum(1000), JNum(0), JStr("SHOULDER"), JNum(30000), "01:00"),
     JDict([consumptionKwh |-> JNum(306), intervalStart |-> JStr("02:30")]),
     Interval(JNull, JNum(0), JStr("PEAK"), JNum(0), "01:30"),
     Interval(JNum(1000), JNum(0), JNull, JNum(0), "02:00"),
     JStr("gap")}

\* sequences over S of length at most n
RECURSIVE SeqsUpTo(_, _)
SeqsUpTo(S, n) ==
    IF n = 0 THEN {<<>>}
    ELSE LET shorter == SeqsUpTo(S, n - 1)
         IN shorter \cup {<<x>> \o q : x \in S, q \in shorter}

HalfHourLists == SeqsUpTo(Intervals, MaxIntervals)

\* the daily summary fields of an entry
DailySummaries ==
    {[consumptionDollar |-> JNum(1236), generationDollar |-> JNum(0 - 404),
      carbonEmissionTonne |-> JNum(124), maxDemandDetail |-> JDict(<<>>)],
     [consumptionDollar |-> JNum(1244), generationDollar |-> JNum(0),
      carbonEmissionTonne |-> JNum(0),
      maxDemandDetail |-> JDict([demandKw |-> JNum(30000),
                                 intervalStart |-> JStr("18:00")])],
     [consumptionDollar |-> JNum(0), generationDollar |-> JNum(404),
      carbonEmissionTonne |-> JNum(31),
      maxDemandDetail |-> JDict([demandKw |-> JNum(40000),
                                 intervalStart |-> JStr("18:30")])]}

\* one daily entry of the usage endpoint
DayEntry(date, half_hours, summary) ==
    JDict([usageDate |-> date, halfHours |-> half_hours,
           consumptionDollar |-> summary.consumptionDollar,
           generationDollar |-> summary.generationDollar,
           carbonEmissionTonne |-> summary.carbonEmissionTonne,
           maxDemandDetail |-> summary.maxDemandDetail])

DayEntries ==
    {DayEntry(JStr("2025-01-01"), JList(hh), d) :
        hh \in HalfHourLists, d \in DailySummaries}

\* a well-formed day, an element that is not a dict, a day whose cost is text
SampleEntries ==
    {DayEntry(JStr("2025-01-02"),
              JList(<<Interval(JNum(15004), JNum(0), JStr("PEAK"), JNum(30000), "00:00")>>),
              [consumptionDollar |-> JNum(1236), generationDollar |-> JNum(0 - 404),
               carbonEmissionTonne |-> JNum(124), maxDemandDetail |-> JDict(<<>>)]),
     JStr("x"),
     JDict([usageDate |-> JStr("2025-01-03"), consumptionDollar |-> JStr("abc")])}

\* what a list of the response may hold
Entries ==
    DayEntries \cup SampleEntries
        \cup {JDict(<<>>), JDict([usageDate |-> JNull, halfHours |-> JStr("none")])}

\* the lists of the response
RawLists ==
    {<<>>} \cup {<<e>> \o rest : e \in Entries,
                               rest \in SeqsUpTo(SampleEntries, MaxEntries - 1)}

\* what a dict of the response may hold under an alias key
AliasValues ==
    {JNull, JNum(0), JStr("x"), JList(<<>>), JDict([k |-> JStr("v")])}
        \cup {JList(<<e>>) : e \in SampleEntries}

\* the alias keys a dict holds, with their values
AliasDicts ==
    UNION {[K -> AliasValues] :
              K \in {k \in SUBSET {AliasKeys[i] : i \in 1..Len(AliasKeys)} :
                        Cardinality(k) <= MaxAliasKeys}}

\* the other keys a dict holds: none, a consumer number, the metadata of a
\* document, the fields of a daily entry
BaseDicts ==
    {<<>>,
     [consumer_number |-> JStr("P9")],
     [consumer_number |-> JStr("P9"), from_date |-> JStr("2024-06-01"),
      to_date |-> JStr("2024-06-30")],
     [usageDate |-> JStr("2025-01-04"),
      halfHours |-> JList(<<Interval(JNum(2504), JNum(7002), JStr("offpeak"), JNum(5004), "00:30")>>),
      consumptionDollar |-> JNum(1236)]}

RawDicts == {a @@ b : a \in AliasDicts, b \in BaseDicts}

\* the bodies response.json() returns
RawData ==
    {JNull, JStr("oops"), JNum(42)}
        \cup {JList(l) : l \in RawLists} \cup {JDict(d) : d \in RawDicts}

\* the arguments of get_usage_data
ConsumerNumbers == {JStr("C1"), JNum(7)}
Dates == {[year |-> 2025, month |-> 1, day |-> 5],
          [year |-> 2025, month |-> 12, day |-> 31]}

\* ------------------------------------------------------- the normalizer run
\* get_usage_data has the body and hands it to _transform_usage_data
InitTransform ==
    /\ access_token = "at1"
    /\ refresh_token = "rt1"
    /\ token_expires = <<1>>
    /\ now = 0
    /\ nRotations = 0
    /\ task = [t \in Tasks |-> Idle]
    /\ coord = Coordinator({}, {})
    /\ \E raw \in RawData, cn \in ConsumerNumbers, fd \in Dates, td \in Dates :
          /\ fd.month < td.month
          /\ norm = [pc |-> "called", raw_data |-> raw, consumer_number |-> cn,
                     from_date |-> fd, to_date |-> td]

\* return self._transform_usage_data(data, consumer_number, from_date, to_date)
transform ==
    /\ norm.pc = "called"
    /\ norm' = [pc |-> "returned", raw_data |-> norm.raw_data,
                consumer_number |-> norm.consumer_number,
                from_date |-> norm.from_date, to_date |-> norm.to_date,
                result |-> transform_usage_data(norm.raw_data, norm.consumer_number,
                                                norm.from_date, norm.to_date)]
    /\ UNCHANGED <<session, now, nRotations, task, coord>>

NextTransform == transform

SpecTransform == InitTransform /\ [][NextTransform]_vars

\* the call has returned a document (it did not raise)
Returned == norm.pc = "returned" /\ norm.result.t # "raise"

\* case 2 applies: a dict holding both consumer_number and usage_data
PassThrough(raw_data) ==
    /\ raw_data.t = "dict"
    /\ {"consumer_number", "usage_data"} \subseteq DOMAIN raw_data.d

\* C17: whatever the body, the document the normalizer returns has the keys
\* consumer_number, from_date, to_date and usage_data, usage_data is a list, and
\* outside the pass-through case the three metadata values are the call's
\* arguments (the consumer number as text, the dates as YYYY-MM-DD).
C17_DocumentShape ==
    Returned =>
        /\ norm.result.t = "dict"
        /\ {"consumer_number", "from_date", "to_date", "usage_data"}
               \subseteq DOMAIN norm.result.d
        /\ norm.result.d["usage_data"].t = "list"
        /\ ~PassThrough(norm.raw_data) =>
               /\ norm.result.d["consumer_number"] = JStr(pystr(norm.consumer_number))
               /\ norm.result.d["from_date"] = JStr(strftime(norm.from_date))
               /\ norm.result.d["to_date"] = JStr(strftime(norm.to_date))

\* case 4 applies: a dict without both canonical keys
ProbedDict(raw_data) == raw_data.t = "dict" /\ ~PassThrough(raw_data)

\* the alias key at position i of AliasKeys holds a list / a non-empty list
HoldsList(raw_data, i) == get(raw_data, AliasKeys[i], JNull).t = "list"
HoldsEntries(raw_data, i) ==
    HoldsList(raw_data, i) /\ truthy(get(raw_data, AliasKeys[i], JNull))

\* C18: a dict in which none of the alias keys holds a list is treated as one
\* entry: usage_data of the returned document has exactly one element, the
\* normalized dict.  Stated for the dicts that are a daily entry (they hold
\* usageDate), the claim's own example.
C18_SingleEntryWrapped ==
    (/\ norm.pc = "returned"
     /\ ProbedDict(norm.raw_data)
     /\ "usageDate" \in DOMAIN norm.raw_data.d
     /\ \A i \in 1..Len(AliasKeys) : ~HoldsList(norm.raw_data, i))
    => /\ norm.result.t = "dict"
       /\ norm.result.d["usage_data"] = JList(<<normalize_usage_entry(norm.raw_data)>>)

\* the position in AliasKeys of the first key holding a non-empty list
FirstWithEntries(raw_data) ==
    CHOOSE i \in 1..Len(AliasKeys) :
        /\ HoldsEntries(raw_data, i)
        /\ \A j \in 1..(i - 1) : ~HoldsEntries(raw_data, j)

\* the entries under the first alias key holding a non-empty list
FirstEntries(raw_data) == raw_data.d[AliasKeys[FirstWithEntries(raw_data)]].l

\* C19: of a dict without both canonical keys, the entries normalized are those
\* of the first alias key, in the order of AliasKeys, whose value is a non-empty
\* list; keys whose value is empty or not a list are passed over.  Stated for
\* entries that normalize without an exception.
C19_FirstNonEmptyListWins ==
    (/\ norm.pc = "returned"
     /\ ProbedDict(norm.raw_data)
     /\ \E i \in 1..Len(AliasKeys) : HoldsEntries(norm.raw_data, i)
     /\ normalize_entries(FirstEntries(norm.raw_data), 1).t # "raise")
    => norm.result =
           document(norm.consumer_number, norm.from_date, norm.to_date,
                    normalize_entries(FirstEntries(norm.raw_data), 1))

\* C20: a dict holding both consumer_number and usage_data is returned as it
\* is: the result equals the body in every key and value, its entries are not
\* normalized and its metadata are not replaced by the call's arguments.
C20_PassThroughUnchanged ==
    (norm.pc = "returned" /\ PassThrough(norm.raw_data))
        => norm.result = norm.raw_data

\* a document with its own consumer number and dates and one raw daily entry
\* has been passed through, under other call arguments
C20_Witness ==
    /\ norm.pc = "returned"
    /\ PassThrough(norm.raw_data)
    /\ "from_date" \in DOMAIN norm.raw_data.d
    /\ norm.raw_data.d["consumer_number"] # JStr(pystr(norm.consumer_number))
    /\ norm.raw_data.d["usage_data"].t = "list"
    /\ Len(norm.raw_data.d["usage_data"].l) = 1
    /\ norm.raw_data.d["usage_data"].l[1].t = "dict"
    /\ norm.result.d["usage_data"].l[1] = norm.raw_data.d["usage_data"].l[1]
    /\ norm.result.d["consumer_number"] = norm.raw_data.d["consumer_number"]

\* ------------------------------------------------------ the entries returned
\* the entries handed to _normalize_usage_entry for a body: the elements of a
\* list, the list found under an alias key, or the dict itself
SourceEntries(raw_data) ==
    IF raw_data.t = "list" THEN raw_data.l
    ELSE IF ProbedDict(raw_data)
         THEN LET found == usage_entries(raw_data, 1)
              IN IF found.t = "list" THEN found.l ELSE <<raw_data>>
         ELSE <<>>

\* the document returned was built by per-entry normalization
Normalized == Returned /\ ~PassThrough(norm.raw_data)

\* usage_data of the document returned
ResultEntries == norm.result.d["usage_data"].l

\* the numeric fields and all the fields of a Daily Entry
EnergyFields ==
    {"usage", "import_usage", "export_usage",
     "peak_import_usage", "offpeak_import_usage", "shoulder_import_usage",
     "peak_export_usage", "offpeak_export_usage", "shoulder_export_usage"}
NumericFields ==
    EnergyFields \cup {"cost", "import_cost", "export_credit", "net_cost",
                       "max_demand_kw", "carbon_emission_tonne"}
DailyEntryFields == NumericFields \cup {"date", "unit", "max_demand_time"}

C22_MalformedNeverFatal ==
    (norm.pc = "returned" /\ ~PassThrough(norm.raw_data))
        => /\ norm.result.t = "dict"
           /\ Len(ResultEntries) = Len(SourceEntries(norm.raw_data))

\* ------------------------------------------------- sums over the half hours
\* the reading under key of an interval: 0 when the element is not a dict or
\* has no such key
Reading(interval, key) ==
    IF interval.t = "dict" THEN get(interval, key, JNum(0)).n ELSE 0

TariffPeriods == {"PEAK", "OFFPEAK", "SHOULDER"}

\* the spellings of a tariff period, whatever the case of the letters
Spellings(period) ==
    CASE period = "PEAK" -> {"PEAK", "peak", "Peak"}
      [] period = "OFFPEAK" -> {"OFFPEAK", "offpeak"}
      [] period = "SHOULDER" -> {"SHOULDER", "shoulder"}

\* the tariff period of an interval: the one its tag spells, "" when the
\* element is not a dict or has no tag or another tag
Period(interval) ==
    LET tag == IF interval.t = "dict"
               THEN get(interval, "primaryConsumptionTariffComponent", JStr(""))
               ELSE JStr("")
    IN IF tag.t = "str" /\ \E p \in TariffPeriods : tag.s \in Spellings(p)
       THEN CHOOSE p \in TariffPeriods : tag.s \in Spellings(p)
       ELSE ""

\* the exact sum of the readings under key over the intervals from i on whose
\* period is in periods
RECURSIVE SumReadings(_, _, _, _)
SumReadings(half_hours, i, key, periods) ==
    IF i > Len(half_hours) THEN 0
    ELSE (IF Period(half_hours[i]) \in periods
          THEN Reading(half_hours[i], key) ELSE 0)
         + SumReadings(half_hours, i + 1, key, periods)

\* the periods of the intervals of a day, and those that are no tariff period
AnyPeriod(half_hours) == {Period(half_hours[k]) : k \in 1..Len(half_hours)}
Untagged(half_hours) == AnyPeriod(half_hours) \ TariffPeriods

\* the half hours of a source entry that is a dict with a halfHours list
HasHalfHours(src) ==
    src.t = "dict" /\ "halfHours" \in DOMAIN src.d /\ src.d["halfHours"].t = "list"

\* C23 as stated: the three period fields plus the consumption of the untagged
\* intervals (rounded like the fields) equal import_usage, likewise for the
\* export fields, and usage = import_usage - export_usage.
C23_PeriodSumsExact ==
    Normalized =>
        \A i \in 1..Len(ResultEntries) :
            LET e == ResultEntries[i]
                src == SourceEntries(norm.raw_data)[i]
                hh == src.d["halfHours"].l
            IN HasHalfHours(src) =>
                /\ e.peak_import_usage + e.offpeak_import_usage
                       + e.shoulder_import_usage
                       + round3(SumReadings(hh, 1, "consumptionKwh", Untagged(hh)))
                     = e.import_usage
                /\ e.peak_export_usage + e.offpeak_export_usage
                       + e.shoulder_export_usage
                       + round3(SumReadings(hh, 1, "generationKwh", Untagged(hh)))
                     = e.export_usage
                /\ e.usage = e.import_usage - e.export_usage

\* every reading of the half hours is a whole number of Wh
WholeWh(half_hours) ==
    \A k \in 1..Len(half_hours) :
        /\ Reading(half_hours[k], "consumptionKwh") % 10 = 0
        /\ Reading(half_hours[k], "generationKwh") % 10 = 0

\* C23 amended: each field is the exact sum rounded to 3 decimals: import_usage
\* of all consumption, each period field of the consumption of the intervals
\* whose tag is that period ignoring case (an interval without such a tag
\* counts in none of them), likewise for generation, and usage of the
\* difference of the two totals; the identities of the claim hold exactly when
\* every reading is a whole number of Wh.
C23_PeriodSumsRounded ==
    Normalized =>
        \A i \in 1..Len(ResultEntries) :
            LET e == ResultEntries[i]
                src == SourceEntries(norm.raw_data)[i]
                hh == src.d["halfHours"].l
                C(p) == SumReadings(hh, 1, "consumptionKwh", p)
                G(p) == SumReadings(hh, 1, "generationKwh", p)
            IN HasHalfHours(src) =>
                /\ e.import_usage = round3(C(AnyPeriod(hh)))
                /\ e.export_usage = round3(G(AnyPeriod(hh)))
                /\ e.peak_import_usage = round3(C({"PEAK"}))
                /\ e.offpeak_import_usage = round3(C({"OFFPEAK"}))
                /\ e.shoulder_import_usage = round3(C({"SHOULDER"}))
                /\ e.peak_export_usage = round3(G({"PEAK"}))
                /\ e.offpeak_export_usage = round3(G({"OFFPEAK"}))
                /\ e.shoulder_export_usage = round3(G({"SHOULDER"}))
                /\ e.usage = round3(C(AnyPeriod(hh)) - G(AnyPeriod(hh)))
                /\ WholeWh(hh) =>
                      /\ e.peak_import_usage + e.offpeak_import_usage
                             + e.shoulder_import_usage
                             + C(Untagged(hh)) = e.import_usage
                      /\ e.peak_export_usage + e.offpeak_export_usage
                             + e.shoulder_export_usage
                             + G(Untagged(hh)) = e.export_usage
                      /\ e.usage = e.import_usage - e.export_usage

\* a day with a peak interval of 1.5004 kWh and an off-peak interval tagged in
\* lower case of 0.2504 kWh has been normalized: the period fields are 1.500
\* and 0.250, import_usage is 1.751
C23_Witness ==
    /\ Normalized
    /\ Len(ResultEntries) >= 1
    /\ HasHalfHours(SourceEntries(norm.raw_data)[1])
    /\ LET hh == SourceEntries(norm.raw_data)[1].d["halfHours"].l
       IN /\ Len(hh) = 2
          /\ Period(hh[1]) = "PEAK"
          /\ Period(hh[2]) = "OFFPEAK"
          /\ hh[2].d["primaryConsumptionTariffComponent"].s = "offpeak"
    /\ ResultEntries[1].peak_import_usage = 15000
    /\ ResultEntries[1].offpeak_import_usage = 2500
    /\ ResultEntries[1].import_usage = 17510

\* ------------------------------------------------------------ maximum demand
\* demandDetail.demandKw of an interval, 0 without it
Demand(interval) ==
    IF interval.t = "dict" /\ get(interval, "demandDetail", JDict(<<>>)).t = "dict"
    THEN get(get(interval, "demandDetail", JDict(<<>>)), "demandKw", JNum(0)).n
    ELSE 0

\* the largest of a non-empty set of numbers
Maximum(S) == CHOOSE x \in S : \A y \in S : y <= x

\* the largest demand of the intervals of a source entry, 0 without intervals
IntervalMaximum(src) ==
    IF HasHalfHours(src)
    THEN Maximum({0} \cup {Demand(src.d["halfHours"].l[k]) :
                              k \in 1..Len(src.d["halfHours"].l)})
    ELSE 0

\* the first interval whose demand is the interval maximum
FirstAttaining(src) ==
    LET hh == src.d["halfHours"].l
    IN hh[CHOOSE k \in 1..Len(hh) :
              /\ Demand(hh[k]) = IntervalMaximum(src)
              /\ \A j \in 1..(k - 1) : Demand(hh[j]) # IntervalMaximum(src)]

\* maxDemandDetail of the daily summary, {} without it
Summary(src) == get(src, "maxDemandDetail", JDict(<<>>))
SummaryDemand(src) ==
    IF Summary(src).t = "dict" THEN get(Summary(src), "demandKw", JNum(0)).n ELSE 0

C25_HttpErrorIsApiError ==
    (coord.pc = "done" /\ coord.result = "UpdateFailed"
        /\ coord.cause = "ClientResponseError")
        => coord.msg = "API error"

\* C26: get_usage_data does not raise on a 400 answer but returns an error
\* document; any other status from 400 on still raises.
C26_BadRequestReturnsErrorDocument ==
    \A t \in Tasks :
        (task[t].op = "get_usage_data" /\ task[t].pc = "done") =>
            /\ task[t].outcome = "http400" => task[t].result \notin ExceptionTypes
            /\ task[t].outcome = "http500" => task[t].result \in ExceptionTypes

\* the requests of one authenticate, in order, and the answers to each that
\* make its step fail
AuthenticateRequests ==
    <<"preauth_post", "discovery_get", "authorize_get", "token_post_code">>
FailingAnswers ==
    <<PreauthResponses \ {"ok"}, DiscoveryResponses \ {"ok"},
      AuthorizeResponses \ {"ok"},
      {Outcome(resp) : resp \in {x \in TokenResponses : exchange_code_for_tokens(x) # Ok}}>>

\* C27: at every moment the requests an authenticate call has issued are the
\* first ones of: password pre-auth POST, discovery GET, authorization GET,
\* token POST, each once; a call that failed stopped at the request whose
\* answer made it fail, a call that returned True issued all four.
C27_AuthenticateStepsInOrder ==
    \A t \in Tasks :
        task[t].op = "authenticate" =>
            LET n == Len(task[t].reqs) IN
            /\ n \in 1..Len(AuthenticateRequests)
            /\ task[t].reqs = SubSeq(AuthenticateRequests, 1, n)
            /\ task[t].pc \in {"preauth", "discovery", "authorize", "exchange", "done"}
            /\ task[t].pc = "preauth" => n = 1
            /\ task[t].pc = "discovery" => n = 2
            /\ task[t].pc = "authorize" => n = 3
            /\ task[t].pc = "exchange" => n = 4
            /\ (task[t].pc = "done" /\ task[t].result = "True") => n = 4
            /\ (task[t].pc = "done" /\ task[t].result # "True") =>
                   task[t].outcome \in FailingAnswers[n]

\* an authenticate has failed at the authorization GET after three requests
C27_Witness ==
    \E t \in Tasks :
        /\ task[t].op = "authenticate" /\ task[t].pc = "done"
        /\ task[t].result = AuthError
        /\ task[t].outcome = "no_code"
        /\ task[t].reqs = <<"preauth_post", "discovery_get", "authorize_get">>

\* the client holds an access token that has expired and no refresh token
ExpiredUnrefreshable ==
    /\ access_token # None
    /\ refresh_token = None
    /\ token_expires # NoExpiry /\ now >= token_expires[1]

\* C28: after a poll has failed on an expired access token that cannot be
\* refreshed, the next poll calls authenticate again.
C28_ExpiredTokenReauthenticates ==
    [][(/\ ExpiredUnrefreshable
        /\ coord.pc = "done" /\ coord.result = "UpdateFailed"
        /\ coord.cause = AuthError
        /\ coord' # coord)
          => coord'.auth = "called"]_vars

\* C29: an authenticate that fails, at whatever step, leaves access_token,
\* refresh_token and token_expires as they were: the step in which the call
\* ends without returning True changes none of them.
C29_FailedAuthenticateKeepsSession ==
    [][\A t \in Tasks :
          (/\ task[t].op = "authenticate" /\ task[t].pc # "done"
           /\ task'[t].pc = "done" /\ task'[t].result # "True")
             => /\ access_token' = access_token
                /\ refresh_token' = refresh_token
                /\ token_expires' = token_expires
      ]_vars

\* the last poll fetched the customer data and then failed before the loop
\* over the properties: in get_properties
PropertiesFailed ==
    /\ coord.pc = "done" /\ coord.result = "UpdateFailed"
    /\ coord.customer_data /\ coord.properties = <<>>
    /\ coord.p = 0 /\ coord.auth = "none"

\* C30: the poll after one in which get_customer_data succeeded and
\* get_properties failed fetches the properties again.
C30_PropertiesFetchedAgain ==
    [][(PropertiesFailed /\ coord' # coord)
          => coord'.pc \in {"customer", "properties"}]_vars
====
